---- MODULE Spec2Model ----
(***************************************************************************)
(* Backtracking Sudoku solver of sudoku_solver.py: the grid, the validity  *)
(* test is_valid, the MRV selector find_empty_with_fewest_candidates and   *)
(* the recursive search solve, unfolded into an explicit call stack.       *)
(***************************************************************************)
EXTENDS Integers, Sequences, FiniteSets, TLC

\* ------------------------------------------------------------------------
\* Program constants
\* ------------------------------------------------------------------------

\* side of the grid: range(9)
N == 9

\* side of a box: (r // 3) * 3
B == 3

\* row and column indices, range(9)
Idx == 0 .. (N - 1)

\* the digits tried in a cell, range(1, 10), in ascending order
Digits == [k \in 1 .. N |-> k]

\* ------------------------------------------------------------------------
\* Input grids
\* ------------------------------------------------------------------------

\* number of cells of EditList that an input may overwrite
NEdit == 3

\* vals of parse_input for 81 placeholder characters
Blank ==
  << 0, 0, 0, 0, 0, 0, 0, 0, 0,
     0, 0, 0, 0, 0, 0, 0, 0, 0,
     0, 0, 0, 0, 0, 0, 0, 0, 0,
     0, 0, 0, 0, 0, 0, 0, 0, 0,
     0, 0, 0, 0, 0, 0, 0, 0, 0,
     0, 0, 0, 0, 0, 0, 0, 0, 0,
     0, 0, 0, 0, 0, 0, 0, 0, 0,
     0, 0, 0, 0, 0, 0, 0, 0, 0,
     0, 0, 0, 0, 0, 0, 0, 0, 0 >>

\* vals of the solution of the puzzle of the module docstring
Solved ==
  << 5, 3, 4, 6, 7, 8, 9, 1, 2,
     6, 7, 2, 1, 9, 5, 3, 4, 8,
     1, 9, 8, 3, 4, 2, 5, 6, 7,
     8, 5, 9, 7, 6, 1, 4, 2, 3,
     4, 2, 6, 8, 5, 3, 7, 9, 1,
     7, 1, 3, 9, 2, 4, 8, 5, 6,
     9, 6, 1, 5, 3, 7, 2, 8, 4,
     2, 8, 7, 4, 1, 9, 6, 3, 5,
     3, 4, 5, 2, 8, 6, 1, 7, 9 >>

\* vals of a puzzle with a completion on which the search has to backtrack
Hard ==
  << 0, 0, 0, 0, 0, 0, 0, 0, 0,
     0, 0, 0, 0, 0, 0, 0, 0, 0,
     0, 0, 0, 0, 0, 0, 3, 0, 0,
     8, 5, 9, 7, 6, 1, 4, 2, 3,
     4, 2, 6, 8, 5, 3, 7, 0, 1,
     7, 1, 3, 9, 2, 4, 8, 5, 6,
     9, 6, 1, 5, 3, 7, 2, 8, 4,
     2, 8, 7, 4, 1, 9, 6, 3, 5,
     3, 4, 5, 2, 8, 6, 1, 7, 9 >>

\* the cells an input may overwrite, in the order in which NEdit admits them
EditList == << <<0, 0>>, <<0, 7>>, <<4, 4>>, <<2, 6>>, <<4, 7>> >>

\* the values of one cell: 0 for "0" or ".", int(c) for a digit
CellVals == 0 .. N

\* parse_input from vals on: [vals[i * 9:(i + 1) * 9] for i in range(9)]
parse_input(vals) == [r \in Idx |-> [c \in Idx |-> vals[r * N + c + 1]]]

\* grid[r][c] = n
SetCell(g, r, c, n) == [g EXCEPT ![r][c] = n]

\* the grids the search is started on: the blank grid, and the solved and
\* the hard grid, each as it is or with one of the first NEdit cells of
\* EditList overwritten by any cell value
Inputs ==
  LET bases == {parse_input(Solved), parse_input(Hard)}
  IN  {parse_input(Blank)} \cup bases \cup
      { SetCell(b, EditList[k][1], EditList[k][2], v) :
          b \in bases, k \in 1 .. NEdit, v \in CellVals }

\* ------------------------------------------------------------------------
\* is_valid
\* ------------------------------------------------------------------------

\* the box test left out
is_validNoBox(g, r, c, n) ==
  /\ ~ \E x \in Idx : g[r][x] = n
  /\ ~ \E x \in Idx : g[x][c] = n

is_valid(g, r, c, n) ==
  /\ ~ \E x \in Idx : g[r][x] = n
  /\ ~ \E x \in Idx : g[x][c] = n
  /\ LET br == (r \div B) * B
         bc == (c \div B) * B
     IN  ~ \E i \in br .. (br + B - 1), j \in bc .. (bc + B - 1) : g[i][j] = n

\* ------------------------------------------------------------------------
\* find_empty_with_fewest_candidates
\* ------------------------------------------------------------------------

\* "None", the result on a grid without an empty cell; a pick is <<r, c, cand>>
None == << >>

\* the emptiness test left out: every cell is scanned
IsEmptyAlways(g, r, c) == TRUE

\* if grid[r][c] == 0
IsEmpty(g, r, c) == g[r][c] = 0

\* cand = [n for n in range(1, 10) if is_valid(grid, r, c, n)]
Cand(g, r, c) == SelectSeq(Digits, LAMBDA n : is_valid(g, r, c, n))

\* "<=" for "<": among cells with equally many candidates the last one wins
BetterOrEqual(cand, best) == best = None \/ Len(cand) <= Len(best[3])

\* if best is None or len(cand) < len(best[2])
Better(cand, best) == best = None \/ Len(cand) < Len(best[3])

\* the result of scanning some cells: ret is TRUE once a return statement
\* was executed, with pick the value returned; otherwise pick is best
Loop(returned, pick) == [ret |-> returned, pick |-> pick]

\* a cell without candidates passed over instead of returned
VisitSkipDead(g, r, c, best) ==
  IF ~ IsEmpty(g, r, c) THEN Loop(FALSE, best)
  ELSE LET cand == Cand(g, r, c)
       IN  IF Len(cand) = 0 THEN Loop(FALSE, best)
           ELSE IF Better(cand, best)
                THEN Loop(Len(cand) = 1, <<r, c, cand>>)
                ELSE Loop(FALSE, best)

\* the body of the inner loop for the cell (r, c), with the current best
Visit(g, r, c, best) ==
  IF ~ IsEmpty(g, r, c) THEN Loop(FALSE, best)
  ELSE LET cand == Cand(g, r, c)
       IN  IF Len(cand) = 0 THEN Loop(TRUE, <<r, c, << >> >>)
           ELSE IF Better(cand, best)
                THEN Loop(Len(cand) = 1, <<r, c, cand>>)
                ELSE Loop(FALSE, best)

\* F(x) with x evaluated once, as a local variable is
Local(x, F(_)) == CHOOSE y \in {F(v) : v \in {x}} : TRUE

\* for c in range(9): the inner loop from column c on
RECURSIVE ScanRow(_, _, _, _)
ScanRow(g, r, c, best) ==
  IF c = N THEN Loop(FALSE, best)
  ELSE Local(Visit(g, r, c, best),
             LAMBDA v : IF v.ret THEN v ELSE ScanRow(g, r, c + 1, v.pick))

\* for r in range(9): the outer loop from row r on; return best
RECURSIVE Scan(_, _, _)
Scan(g, r, best) ==
  IF r = N THEN best
  ELSE Local(ScanRow(g, r, 0, best),
             LAMBDA v : IF v.ret THEN v.pick ELSE Scan(g, r + 1, v.pick))

find_empty_with_fewest_candidates(g) == Scan(g, 0, None)

\* ------------------------------------------------------------------------
\* solve, as a stack of calls
\* ------------------------------------------------------------------------

VARIABLES
  input,   \* the grid handed to the top-level call of solve
  grid,    \* the grid, mutated in place
  stack,   \* the active calls of solve, outermost first
  ret      \* the value returned by the call that returned last, "none"
           \* once the caller has consumed it

vars == <<input, grid, stack, ret>>

\* a call of solve: pc is "select" at the call of the selector, "loop" at
\* the head of the for loop and "wait" during the recursive call; pick is
\* the selector's result, i the position in cand of the candidate n, entry
\* the grid when the call began
Frame(pc, pick, i, entry) ==
  [pc |-> pc, pick |-> pick, i |-> i, entry |-> entry]

Top == stack[Len(stack)]

Pop == SubSeq(stack, 1, Len(stack) - 1)

SetTop(f) == [stack EXCEPT ![Len(stack)] = f]

\* main: grid = parse_input(raw); solve(grid)
Init ==
  /\ input \in Inputs
  /\ grid = input
  /\ stack = << Frame("select", None, 0, input) >>
  /\ ret = "none"

\* pick = find_empty_with_fewest_candidates(grid); if pick is None: return True
SelectNone ==
  /\ stack # << >>
  /\ Top.pc = "select"
  /\ find_empty_with_fewest_candidates(grid) = None
  /\ stack' = Pop
  /\ ret' = "True"
  /\ UNCHANGED <<input, grid>>

\* pick = find_empty_with_fewest_candidates(grid); r, c, cand = pick
SelectCell ==
  /\ stack # << >>
  /\ Top.pc = "select"
  /\ LET pick == find_empty_with_fewest_candidates(grid)
     IN  /\ pick # None
         /\ stack' = SetTop(Frame("loop", pick, 1, Top.entry))
  /\ UNCHANGED <<input, grid, ret>>

\* the recursive call made without writing the candidate into the grid
PlaceNoWrite ==
  /\ stack # << >>
  /\ Top.pc = "loop"
  /\ Top.i <= Len(Top.pick[3])
  /\ stack' = Append(SetTop([Top EXCEPT !.pc = "wait"]),
                     Frame("select", None, 0, grid))
  /\ UNCHANGED <<input, grid, ret>>

\* for n in cand: grid[r][c] = n; solve(grid)
Place ==
  /\ stack # << >>
  /\ Top.pc = "loop"
  /\ Top.i <= Len(Top.pick[3])
  /\ grid' = SetCell(grid, Top.pick[1], Top.pick[2], Top.pick[3][Top.i])
  /\ stack' = Append(SetTop([Top EXCEPT !.pc = "wait"]),
                     Frame("select", None, 0, grid'))
  /\ UNCHANGED <<input, ret>>

\* the for loop is over: return False
Exhaust ==
  /\ stack # << >>
  /\ Top.pc = "loop"
  /\ Top.i > Len(Top.pick[3])
  /\ stack' = Pop
  /\ ret' = "False"
  /\ UNCHANGED <<input, grid>>

\* if solve(grid): return True
ReturnTrue ==
  /\ stack # << >>
  /\ Top.pc = "wait"
  /\ ret = "True"
  /\ stack' = Pop
  /\ UNCHANGED <<input, grid, ret>>

\* the failed candidate tried again instead of the next one
UndoRetry ==
  /\ stack # << >>
  /\ Top.pc = "wait"
  /\ ret = "False"
  /\ grid' = SetCell(grid, Top.pick[1], Top.pick[2], 0)
  /\ stack' = SetTop([Top EXCEPT !.pc = "loop"])
  /\ ret' = "none"
  /\ UNCHANGED input

\* the cell not reset after the last candidate
UndoSkipLast ==
  /\ stack # << >>
  /\ Top.pc = "wait"
  /\ ret = "False"
  /\ grid' = IF Top.i < Len(Top.pick[3])
             THEN SetCell(grid, Top.pick[1], Top.pick[2], 0)
             ELSE grid
  /\ stack' = SetTop([Top EXCEPT !.pc = "loop", !.i = @ + 1])
  /\ ret' = "none"
  /\ UNCHANGED input

\* the loop left at the first failed candidate
UndoGiveUp ==
  /\ stack # << >>
  /\ Top.pc = "wait"
  /\ ret = "False"
  /\ grid' = SetCell(grid, Top.pick[1], Top.pick[2], 0)
  /\ stack' = SetTop([Top EXCEPT !.pc = "loop", !.i = Len(Top.pick[3]) + 1])
  /\ ret' = "none"
  /\ UNCHANGED input

\* solve(grid) was False: grid[r][c] = 0, and on to the next n
Undo ==
  /\ stack # << >>
  /\ Top.pc = "wait"
  /\ ret = "False"
  /\ grid' = SetCell(grid, Top.pick[1], Top.pick[2], 0)
  /\ stack' = SetTop([Top EXCEPT !.pc = "loop", !.i = @ + 1])
  /\ ret' = "none"
  /\ UNCHANGED input

Next ==
  \/ SelectNone
  \/ SelectCell
  \/ Place
  \/ Exhaust
  \/ ReturnTrue
  \/ Undo

Spec == Init /\ [][Next]_vars

\* the search is one synchronous call chain: it runs until it returns
FairSpec == Spec /\ WF_vars(Next)

\* the top-level call has returned
Done == stack = << >>

\* ------------------------------------------------------------------------
\* Sudoku rules, for the statements below
\* ------------------------------------------------------------------------

Cells == Idx \X Idx

\* the rows, the columns and the boxes, as sets of cells
Units ==
  { {<<r, c>> : c \in Idx} : r \in Idx } \cup
  { {<<r, c>> : r \in Idx} : c \in Idx } \cup
  { {p \in Cells : p[1] \div B = a /\ p[2] \div B = b} :
      a \in 0 .. (B - 1), b \in 0 .. (B - 1) }

\* the cells other than p that share a row, a column or a box with p
Peers(p) ==
  {q \in Cells :
     /\ q # p
     /\ \/ q[1] = p[1]
        \/ q[2] = p[2]
        \/ (q[1] \div B = p[1] \div B /\ q[2] \div B = p[2] \div B)}

At(g, p) == g[p[1]][p[2]]

Empties(g) == {p \in Cells : At(g, p) = 0}

\* position of a cell in the row-major order
RowMajor(p) == p[1] * N + p[2]

\* no digit occurs twice in a row, a column or a box of g
NoDup(g) ==
  \A u \in Units : \A p \in u : \A q \in u :
    (p # q /\ At(g, p) # 0) => At(g, p) # At(g, q)

\* every row, column and box of g contains each digit exactly once
ValidFull(g) ==
  \A u \in Units : \A d \in 1 .. N :
    Cardinality({p \in u : At(g, p) = d}) = 1

\* the legal digits of the cell p: those absent from its row, column and box
Legal(g, p) == (1 .. N) \ {At(g, q) : q \in Peers(p) \cup {p}}

\* the empty cells of g without a legal digit
Dead(g) == {p \in Empties(g) : Legal(g, p) = {}}

\* g can be extended to a full grid without a duplicate, filling the
\* empty cells from cell k = r * 9 + c on
RECURSIVE Extends(_, _)
Extends(g, k) ==
  IF k = N * N THEN TRUE
  ELSE LET r == k \div N
           c == k % N
       IN  IF g[r][c] # 0 THEN Extends(g, k + 1)
           ELSE \E n \in Legal(g, <<r, c>>) : Extends(SetCell(g, r, c, n), k + 1)

\* g has a valid completion: a full grid that agrees with the given cells
\* of g and has each digit once in every row, column and box
HasCompletion(g) == NoDup(g) /\ Extends(g, 0)

\* the selector is about to be called on grid
Selecting == stack # << >> /\ Top.pc = "select"

\* the elements of a sequence
Range(s) == {s[k] : k \in 1 .. Len(s)}

Ascending(s) == \A k \in 1 .. (Len(s) - 1) : s[k] < s[k + 1]

\* ------------------------------------------------------------------------
\* Statements
\* ------------------------------------------------------------------------

\* C1 (validity): whenever the top-level call of solve returns True, every
\* row, every column and every box of the grid it leaves behind contains
\* each digit 1-9 exactly once.
C1_Validity == (Done /\ ret = "True") => ValidFull(grid)

\* C2 (unsatisfiability detection): for an input without a valid completion,
\* in particular one whose given cells repeat a digit in a row, a column or
\* a box, the top-level call of solve returns False, never True.
C2_UnsatDetected == (Done /\ ret # "False") => HasCompletion(input)

\* C3 (completeness): for an input with a valid completion the top-level
\* call of solve returns True; it returns False only when there is none.
C3_Completeness == (Done /\ ret # "True") => ~ HasCompletion(input)

\* the blank grid was solved: the grid left is a valid completion of it
C3_Witness ==
  /\ Done
  /\ ret = "True"
  /\ input = parse_input(Blank)
  /\ ValidFull(grid)

\* C4 (consistency with input): in every state of the search, and when
\* solve has returned, every cell that is non-empty in the input holds its
\* input value; only cells empty in the input are ever written.
C4_InputKept ==
  \A p \in Cells : At(input, p) # 0 => At(grid, p) = At(input, p)

\* the search has written digits into a grid that has given cells
C4_Witness ==
  /\ Len(stack) >= 3
  /\ Top.pc = "wait"
  /\ grid # input
  /\ \E p \in Cells : At(input, p) # 0

\* C5 (termination): the search started by the top-level call ends, either
\* with solve returning True and no empty cell left, or with solve returning
\* False; and the top-level call returns False only from the end of its
\* loop, every candidate of its selected cell tried.
C5_Termination ==
  /\ <>(Done /\ (ret = "False" \/ (ret = "True" /\ Empties(grid) = {})))
  /\ [][(stack' = << >> /\ ret' = "False")
          => (Top.pc = "loop" /\ Top.i = Len(Top.pick[3]) + 1)]_vars

\* the search on an input with empty cells and without a duplicate among its
\* given digits has ended with the top-level call returning False
C5_Witness ==
  /\ Done
  /\ ret = "False"
  /\ NoDup(input)
  /\ Empties(input) # {}

\* C6 (local consistency): in every state of the search each digit placed
\* and not yet undone is the current candidate of its call and differs from
\* every other cell of its row, its column and its box; hence a grid whose
\* given digits have no duplicate never gets one.
C6_LocalConsistency ==
  /\ \A k \in 1 .. Len(stack) :
       stack[k].pc = "wait" =>
         LET f == stack[k]
             p == <<f.pick[1], f.pick[2]>>
         IN  /\ At(grid, p) = f.pick[3][f.i]
             /\ At(grid, p) # 0
             /\ \A q \in Peers(p) : At(grid, q) # At(grid, p)
  /\ NoDup(input) => NoDup(grid)

\* a call holds a candidate it took from its list after an undo, with
\* further calls nested in it
C6_Witness ==
  /\ NoDup(input)
  /\ Len(stack) >= 3
  /\ \E k \in 1 .. (Len(stack) - 2) :
       stack[k].pc = "wait" /\ stack[k].i >= 2 /\ stack[k + 1].pc = "wait"

\* C7 (undo on failure): whenever a call of solve, top-level or nested,
\* returns False, the grid is cell for cell the grid of the moment the call
\* began.
C7_UndoOnFailure ==
  [][(ret' = "False" /\ Len(stack') < Len(stack)) => grid' = Top.entry]_vars

\* a nested call is about to return False after trying two candidates or more
C7_Witness ==
  /\ Len(stack) >= 2
  /\ Top.pc = "loop"
  /\ Len(Top.pick[3]) >= 2
  /\ Top.i > Len(Top.pick[3])

\* the first dead cell of g comes before every empty cell with exactly one
\* legal digit: the scan meets it before it returns a single candidate
DeadFirst(g) ==
  \E p \in Dead(g) :
    \A q \in Empties(g) :
      RowMajor(q) < RowMajor(p) => Cardinality(Legal(g, q)) >= 2

\* C8 as stated (zero-candidate dead end): whenever the grid of a call has an
\* empty cell without a legal digit, the selector returns a cell with an
\* empty candidate list, and the call returns False without placing a digit.
C8_AnyDeadCell ==
  (stack # << >> /\ Dead(Top.entry) # {}) =>
    IF Top.pc = "select"
    THEN LET pick == find_empty_with_fewest_candidates(grid)
         IN  pick # None /\ pick[3] = << >>
    ELSE Top.pc = "loop" /\ Top.pick[3] = << >> /\ grid = Top.entry

\* C8 amended: a call whose grid has an empty cell without a legal digit never
\* returns True; and if no empty cell before the first such cell has exactly
\* one legal digit, the selector returns a dead cell with an empty candidate
\* list and the call returns False without placing a digit.
C8_DeadEnd ==
  stack # << >> =>
    /\ (Dead(Top.entry) # {} /\ Top.pc = "select") =>
         find_empty_with_fewest_candidates(grid) # None
    /\ (Dead(Top.entry) # {} /\ Top.pc = "wait") => ret # "True"
    /\ DeadFirst(Top.entry) =>
         IF Top.pc = "select"
         THEN LET pick == find_empty_with_fewest_candidates(grid)
              IN  /\ pick # None
                  /\ pick[3] = << >>
                  /\ <<pick[1], pick[2]>> \in Dead(grid)
         ELSE Top.pc = "loop" /\ Top.pick[3] = << >> /\ grid = Top.entry

\* a nested call got a dead cell from the selector and is about to return
\* False
C8_Witness ==
  /\ Len(stack) >= 2
  /\ Top.pc = "loop"
  /\ Top.pick[3] = << >>
  /\ DeadFirst(Top.entry)
  /\ \E q \in Empties(grid) : Legal(grid, q) # {}

\* C9 as stated (recursion depth): at most 81 calls of solve, the number of
\* cells, are active at once.
C9_DepthCells == Len(stack) <= N * N

\* C9 amended: at most 82 calls are active at once, one more than the number
\* of cells: one call more than the input has empty cells.
C9_Depth ==
  /\ Len(stack) <= Cardinality(Empties(input)) + 1
  /\ Len(stack) <= N * N + 1

\* every cell of the blank grid is filled and the last call is active
C9_Witness == Len(stack) = N * N + 1

\* the row-major-earliest of the empty cells of g with the fewest legal digits
MRVCell(g) ==
  LET cnt == {<<p, Cardinality(Legal(g, p))>> : p \in Empties(g)}
      min == CHOOSE x \in cnt :
               \A y \in cnt :
                 \/ x[2] < y[2]
                 \/ (x[2] = y[2] /\ RowMajor(x[1]) <= RowMajor(y[1]))
  IN  min[1]

\* C10 (MRV selection): the selector returns None exactly when the grid has
\* no empty cell; when there are empty cells and each has a legal digit, it
\* returns the row-major-earliest of those with the fewest legal digits,
\* with exactly that cell's legal digits in ascending order.
C10_MRVSelection ==
  Selecting =>
    LET pick == find_empty_with_fewest_candidates(grid)
    IN  /\ (pick = None) <=> (Empties(grid) = {})
        /\ (Empties(grid) # {} /\ Dead(grid) = {}) =>
             LET p == MRVCell(grid)
             IN  /\ <<pick[1], pick[2]>> = p
                 /\ Ascending(pick[3])
                 /\ Range(pick[3]) = Legal(grid, p)

\* several cells tie on the fewest legal digits, two or more, and the
\* earliest of them is not the first empty cell of the grid
C10_Witness ==
  /\ Selecting
  /\ Empties(grid) # {}
  /\ Dead(grid) = {}
  /\ LET p == MRVCell(grid)
     IN  /\ Cardinality(Legal(grid, p)) >= 2
         /\ \E q \in Empties(grid) :
              q # p /\ Cardinality(Legal(grid, q)) = Cardinality(Legal(grid, p))
         /\ \E q \in Empties(grid) : RowMajor(q) < RowMajor(p)

====
